---- MODULE Spec2Model ----
(***************************************************************************)
(* Model of the RESTCONF client driver of freeconf/manage.                 *)
(*                                                                         *)
(*   Spec        one clientNode instance (src/client/client.go 332-562)    *)
(*               driven by any sequence of BeginEdit / Child / Next /      *)
(*               Field / EndEdit requests against a server that may answer *)
(*               every transport call in any way.                          *)
(*   StreamSpec  the subscription pipeline of client.clientStream and      *)
(*               OnNotify (src/client/client.go 165-245, 418-436).         *)
(*   WireSpec    the transport call client.clientDo and the action call    *)
(*               clientNode.requestAction (274-312, 520-562) applied to    *)
(*               any request and any server response.                      *)
(*   AuthSpec    a selection of the birding browser of TestAuthConstraints *)
(*               (src/secure/authorize_test.go) carrying a role, under any *)
(*               sequence of reads, navigations, edits, action calls and   *)
(*               subscriptions.                                            *)
(***************************************************************************)
EXTENDS Naturals, Sequences, FiniteSets, TLC

VARIABLES
    \* ---- clientNode fields (client.go 332-341)
    read,       \* self.read    : node.Node, nil until a GET succeeded
    edit,       \* self.edit    : node.Node, the nodeutil.Extend of startEditMode
    changes,    \* self.changes : node.Node, the reflect node over the change map
    found,      \* self.found   : bool
    method,     \* self.method  : string
    \* ---- observation of the last handler call
    op,         \* the request the last handler call received
    sent,       \* the transport calls (clientDo) that call made, in order
    ret,        \* what the call returned
    \* ---- history
    nOps,           \* handler calls so far
    nOptions,       \* OPTIONS requests issued so far
    nOptionsOk,     \* OPTIONS requests answered with success so far
    probedOk,       \* navigation targets whose OPTIONS probe succeeded
    lastBegin,      \* the latest root-scope BeginEdit: "none", "new" or "update"
    begunOk,        \* a root-scope BeginEdit has returned without error
    written,        \* what the requests since that BeginEdit wrote at the edit root
    pre,            \* before the last handler call: was read nil, was edit nil, was found set
    kept,           \* the last handler call left read, edit and changes as they were
    same,           \* the last handler call left every clientNode field as it was
    answered,       \* what the server answered to the last handler call's request
    \* ---- subscription pipeline (StreamSpec)
    rpc,        \* where the stream-reading goroutine of clientStream is
    fpc,        \* where the forwarding goroutine of OnNotify is
    pending,    \* the event the reader holds at "stream <- e"
    got,        \* the event the forwarder received and has not passed on yet
    cancelled,  \* the closer was called: ctx is done
    delivered,  \* the events passed to the subscriber, each with whether ctx was done
    takenSeq,   \* the chunks the reader took from decodeSse's channel, in order
    wrapperOff, \* compliance.DisableNotificationWrapper
    sseOpen,    \* the server has not ended the response stream
    sseCloses,  \* decodeSse closes its channel when the response stream ends
    \* ---- transport and action calls (WireSpec)
    allowRpcUnderData,  \* c.compliance.AllowRpcUnderData
    actionWrapperOff,   \* Compliance.DisableActionWrapper
    call,               \* the last call: what went in, what went out, what came back
    \* ---- access control (AuthSpec)
    role,           \* acl.Access: path -> permission of its entry, or Unset
    notifyNeeds,    \* the permission a subscription asks for
    store,          \* the data under the browser: count, owner, owner/name
    areq,           \* the last operation on the selection: kind, path, value
    ares,           \* what it came back with and whether the node's handler ran
    events,         \* what the subscriber's stream function received, in order
    subOpen         \* the subscription is open: a closer is held and not called

drv == <<read, edit, changes, found, method>>
obs == <<op, sent, ret>>
hist == <<nOps, nOptions, nOptionsOk, probedOk, lastBegin, begunOk, written, pre, kept, same,
          answered>>
strm == <<rpc, fpc, pending, got, cancelled, delivered, takenSeq, wrapperOff,
          sseOpen, sseCloses>>
wire == <<allowRpcUnderData, actionWrapperOff, call>>
auth == <<role, notifyNeeds, store, areq, ares, events, subOpen>>
vars == <<drv, obs, hist, strm, wire, auth>>

-----------------------------------------------------------------------------
(* Bounds *)

\* handler calls on one driver instance
MaxOps == 3

\* chunks one subscription takes from the event stream
MaxChunks == 2

-----------------------------------------------------------------------------
(* Schema and data of the test fixture: container x { container y {} leaf z } *)
(* (src/unnamed/part_000 27-32).                                             *)

Containers == {"y"}
Leaves == {"z"}
Members == Containers \cup Leaves
SchemaOrder == <<"y", "z">>
Absent == "absent"
Obj == "{}"
LeafVals == {"hi", "yo"}

\* the selection the driver node is attached to, and the navigation targets below it
SelPath == <<"x">>
NoTarget == <<>>
Targets == {<<"x", "y">>, <<"x", "y", "w">>}

\* contents of a JSON object over the schema: member -> value or Absent
Data == { d \in [Members -> {Absent, Obj} \cup LeafVals] :
            /\ \A c \in Containers : d[c] \in {Absent, Obj}
            /\ \A l \in Leaves : d[l] \in {Absent} \cup LeafVals }
EmptyData == [m \in Members |-> Absent]
\* what the server holds: the fixture {"y":{},"z":"hi"} and its sub-objects
ServerData == { d \in Data : d["z"] \in {Absent, "hi"} }

\* a node.Node value: nil, or a node over some data
NilNode == [nil |-> TRUE, data |-> EmptyData]
Node(d) == [nil |-> FALSE, data |-> d]

\* an HTTP response body
NoBody == [present |-> FALSE, data |-> EmptyData]
Body(d) == [present |-> TRUE, data |-> d]
Bodies == {NoBody} \cup { Body(d) : d \in ServerData }

\* what the server may answer to one transport call
Statuses == {200, 201, 204, 404, 500}
Fixture == [y |-> Obj, z |-> "hi"]
NoResponse == [neterr |-> TRUE, status |-> 0, body |-> NoBody]
Responses == { NoResponse } \cup
             { [neterr |-> FALSE, status |-> 200, body |-> b] : b \in Bodies } \cup
             { [neterr |-> FALSE, status |-> s, body |-> NoBody] : s \in Statuses \ {200} } \cup
             { [neterr |-> FALSE, status |-> 500, body |-> Body(Fixture)] }

\* the answers drawn for one handler call: the server's, when the call asks it
Answers(asks) == IF asks THEN Responses ELSE { NoResponse }

NoErr == [kind |-> "none", status |-> 0, body |-> NoBody]
NetErr == [kind |-> "net", status |-> 0, body |-> NoBody]
HttpErr(s, b) == [kind |-> "http", status |-> s, body |-> b]
WriteErr == [kind |-> "write", status |-> 0, body |-> NoBody]

\* errors.Is(err, fc.NotFoundError): only an error that wraps fc.NotFoundError.
\* clientDo builds its status errors with fmt.Errorf and no %w (client.go 306)
\* and passes on the http client's own errors, so none of its errors does: a
\* 404 reaches validNavigation as an "http" error.
IsNotFound(e) == e.kind = "notfound"

-----------------------------------------------------------------------------
(* Stream events: the decoding step of client.clientStream (client.go 193-236) *)

\* A chunk, by what json.Unmarshal and the type assertions of the decoder find in
\* it: json (it unmarshals into an object), wrapper (an object under
\* "ietf-restconf:notification"), event (an object under "event"), time (the
\* "eventTime": "missing" when no string is there, "bad" when time.Parse
\* rejects it, else the time it denotes).
EventTimes == {"t1", "t2"}
Chunk(j, w, e, t) == [json |-> j, wrapper |-> w, event |-> e, time |-> t]
Chunks == { Chunk(FALSE, FALSE, FALSE, "missing"), Chunk(TRUE, FALSE, FALSE, "missing") } \cup
          { Chunk(TRUE, TRUE, e, t) : e \in BOOLEAN, t \in {"missing", "bad"} \cup EventTimes }
\* the zero value received from a closed channel: no bytes
NilChunk == Chunk(FALSE, FALSE, FALSE, "missing")

\* streamEvent{Timestamp, Node}: kind "payload" or "error" (node.ErrorNode);
\* node is "event" (the event object), "chunk" (the whole chunk) or "error"
Event(kind, reason, ts, nd) == [kind |-> kind, reason |-> reason, ts |-> ts, node |-> nd]
NoEvent == Event("none", "none", "none", "none")
ErrorEvent(reason) == Event("error", reason, "now", "error")

\* the decoder looking for "eventTime" before "event"
DecodeEventTimeFirst(c, off) ==
    IF ~c.json THEN ErrorEvent("unparsable JSON")
    ELSE IF off THEN Event("payload", "none", "now", "chunk")
    ELSE IF ~c.wrapper THEN ErrorEvent("missing notification wrapper")
    ELSE IF c.time = "missing" THEN ErrorEvent("missing eventTime")
    ELSE IF ~c.event THEN ErrorEvent("missing event")
    ELSE IF c.time = "bad" THEN ErrorEvent("wrong time format")
    ELSE Event("payload", "none", c.time, "event")

DecodeEvent(c, off) ==
    IF ~c.json THEN ErrorEvent("unparsable JSON")
    ELSE IF off THEN Event("payload", "none", "now", "chunk")
    ELSE IF ~c.wrapper THEN ErrorEvent("missing notification wrapper")
    ELSE IF ~c.event THEN ErrorEvent("missing event")
    ELSE IF c.time = "missing" THEN ErrorEvent("missing eventTime")
    ELSE IF c.time = "bad" THEN ErrorEvent("wrong time format")
    ELSE Event("payload", "none", c.time, "event")

-----------------------------------------------------------------------------
(* Transport: client.clientDo (client.go 274-312) *)

\* http.NewRequest sends an empty method as GET
Verb(m) == IF m = "" THEN "GET" ELSE m

ClientDo(m, params, path, payload, resp) ==
    LET req == [method |-> Verb(m), params |-> params, path |-> path, payload |-> payload]
    IN  IF resp.neterr
          THEN [req |-> req, body |-> NoBody, err |-> NetErr]
        ELSE IF resp.status # 200
          THEN [req |-> req, body |-> NoBody, err |-> HttpErr(resp.status, resp.body)]
        ELSE IF ~resp.body.present
          THEN [req |-> req, body |-> NoBody, err |-> NoErr]
        ELSE [req |-> req, body |-> resp.body, err |-> NoErr]

-----------------------------------------------------------------------------
(* JSON reading and writing (nodeutil.ReadJSONIO, nodeutil.NewJSONWtr) *)

ReadJSONIO(body) == Node(body.data)

IsPresent(pair) == pair[3] # Absent

\* an empty buffer: nothing was written
NoPayload == [empty |-> TRUE, obj |-> <<>>]

\* the module-qualified object written for a node: {"m:y":{},"m:z":"hi"} is
\* <<"m","y","{}">>, <<"m","z","hi">>, the members in schema order
WriteJSON(d) ==
    [empty |-> FALSE,
     obj |-> SelectSeq([i \in 1..Len(SchemaOrder) |->
                          <<"m", SchemaOrder[i], d[SchemaOrder[i]]>>], IsPresent)]

\* node.Selection values handed to request
NoSelection == [isNil |-> TRUE, node |-> NilNode, lib |-> "isnil"]

\* r.Selection.Split(n).  Over a nil node the library decides what the selection
\* is worth; lib is that outcome: "isnil" (the selection counts as nil),
\* "err" (InsertInto reports an error) or "panic" (InsertInto dereferences nil).
NilSplit == {"isnil", "err", "panic"}
Split(n, lib) == [isNil |-> n.nil /\ lib = "isnil", node |-> n, lib |-> lib]

-----------------------------------------------------------------------------
(* clientNode helpers (client.go 454-518) *)

Result(s, n, e, p) == [sent |-> s, node |-> n, err |-> e, panic |-> p]

\* clientNode.get: resp.Close() on the nil response of a bodyless success panics
Get(path, params, resp) ==
    LET d == ClientDo("GET", params, path, NoPayload, resp)
    IN  IF d.err.kind # "none" THEN Result(<<d.req>>, NilNode, d.err, FALSE)
        ELSE IF ~d.body.present THEN Result(<<d.req>>, NilNode, NoErr, TRUE)
        ELSE Result(<<d.req>>, ReadJSONIO(d.body), NoErr, FALSE)

\* clientNode.request
Request(m, path, in, resp) ==
    IF ~in.isNil /\ in.node.nil /\ in.lib = "panic"
      THEN Result(<<>>, NilNode, NoErr, TRUE)
    ELSE IF ~in.isNil /\ in.node.nil
      THEN Result(<<>>, NilNode, WriteErr, FALSE)
    ELSE
      LET payload == IF in.isNil THEN NoPayload ELSE WriteJSON(in.node.data)
          d == ClientDo(m, "", path, payload, resp)
      IN  IF d.err.kind # "none" \/ ~d.body.present
            THEN Result(<<d.req>>, NilNode, d.err, FALSE)
          ELSE Result(<<d.req>>, ReadJSONIO(d.body), NoErr, FALSE)

\* self.params is never assigned: the zero value
SelfParams == ""

EditParams == "depth=1&content=config&with-defaults=trim"

\* validNavigation without "self.found = true"
ValidNavigationForgets(target, resp) ==
    LET r == Request("OPTIONS", target, NoSelection, resp)
    IN  IF found THEN [valid |-> TRUE, err |-> NoErr, found |-> found, sent |-> <<>>]
        ELSE IF IsNotFound(r.err)
          THEN [valid |-> FALSE, err |-> NoErr, found |-> FALSE, sent |-> r.sent]
        ELSE IF r.err.kind # "none"
          THEN [valid |-> FALSE, err |-> r.err, found |-> FALSE, sent |-> r.sent]
        ELSE [valid |-> TRUE, err |-> NoErr, found |-> FALSE, sent |-> r.sent]

\* clientNode.validNavigation: [valid, err, found', sent]
ValidNavigation(target, resp) ==
    IF ~found
      THEN LET r == Request("OPTIONS", target, NoSelection, resp)
           IN  IF IsNotFound(r.err)
                 THEN [valid |-> FALSE, err |-> NoErr, found |-> FALSE, sent |-> r.sent]
               ELSE IF r.err.kind # "none"
                 THEN [valid |-> FALSE, err |-> r.err, found |-> FALSE, sent |-> r.sent]
               ELSE [valid |-> TRUE, err |-> NoErr, found |-> TRUE, sent |-> r.sent]
      ELSE [valid |-> TRUE, err |-> NoErr, found |-> found, sent |-> <<>>]

\* clientNode.startReadMode: self.read, err = self.get(path, self.params)
StartReadMode(path, resp) == Get(path, SelfParams, resp)

\* clientNode.startEditMode: the pre-fetch; on success the caller installs a
\* fresh change buffer and the Extend that closes over the snapshot
StartEditMode(path, resp) == Get(path, EditParams, resp)

NilEdit == [nil |-> TRUE, existing |-> NilNode]
Extend(existing) == [nil |-> FALSE, existing |-> existing]

\* nodeutil.ReflectChild over the change map: Child creates on New, else looks up
ReflectChild(buf, r) ==
    IF r.new THEN [buf |-> Node([buf.data EXCEPT ![r.meta] = Obj]), val |-> Obj]
    ELSE [buf |-> buf, val |-> buf.data[r.meta]]

\* the closure as a two-layer lookup: overlay first, then the snapshot
EditOnChildOverlayFirst(r) ==
    IF r.new \/ changes.data[r.meta] # Absent \/ edit.existing.nil
      THEN LET c == ReflectChild(changes, r)
           IN  [buf |-> c.buf, by |-> "overlay", val |-> c.val]
    ELSE [buf |-> changes, by |-> "snapshot", val |-> edit.existing.data[r.meta]]

\* the OnChild closure of startEditMode (client.go 472-477)
EditOnChild(r) ==
    IF ~r.new /\ ~edit.existing.nil
      THEN [buf |-> changes, by |-> "snapshot", val |-> edit.existing.data[r.meta]]
    ELSE LET c == ReflectChild(changes, r)
         IN  [buf |-> c.buf, by |-> "overlay", val |-> c.val]

\* reflect Field over the change map: a write stores, a read looks up
ReflectField(buf, r) ==
    IF r.write THEN [buf |-> Node([buf.data EXCEPT ![r.meta] = r.val]), val |-> r.val]
    ELSE [buf |-> buf, val |-> buf.data[r.meta]]

-----------------------------------------------------------------------------
(* Requests *)

Op(kind, meta, new, delete, write, val, target, editRoot) ==
    [kind |-> kind, meta |-> meta, new |-> new, delete |-> delete, write |-> write,
     val |-> val, target |-> target, editRoot |-> editRoot]

NoOp == Op("none", "y", FALSE, FALSE, FALSE, Absent, NoTarget, FALSE)

\* r.IsNavigation(): the request carries a target
IsNavigation(r) == r.target # NoTarget

\* The requests enumerated vary the fields the handler (or the handle it
\* delegates to) reads: New for BeginEdit, Delete for EndEdit, New and Delete
\* for a data Child request, Delete for a navigational one, Write and the
\* value for a data Field request.
BeginRequests == { Op("BeginEdit", "y", n, FALSE, FALSE, Absent, NoTarget, e) :
                    n \in BOOLEAN, e \in BOOLEAN }
EndRequests == { Op("EndEdit", "y", FALSE, d, FALSE, Absent, NoTarget, e) :
                    d \in BOOLEAN, e \in BOOLEAN }
ChildRequests == { Op("Child", m, n, d, FALSE, Absent, NoTarget, FALSE) :
                    m \in Containers, n \in BOOLEAN, d \in BOOLEAN } \cup
                 { Op("Child", m, FALSE, d, FALSE, Absent, t, FALSE) :
                    m \in Containers, d \in BOOLEAN, t \in Targets }
ListRequests == { Op("Next", "y", FALSE, FALSE, FALSE, Absent, t, FALSE) :
                    t \in Targets \cup {NoTarget} }
FieldRequests == { Op("Field", m, FALSE, FALSE, TRUE, v, NoTarget, FALSE) :
                    m \in Leaves, v \in LeafVals } \cup
                 { Op("Field", m, FALSE, FALSE, FALSE, Absent, t, FALSE) :
                    m \in Leaves, t \in Targets \cup {NoTarget} }

\* what a handler returned: kind "ok", "err" or "panic"; by names who answered
\* ("self" the driver node, "overlay", "snapshot", "read", "none" for no node)
Ret(kind, by, val, err) == [kind |-> kind, by |-> by, val |-> val, err |-> err]
RetOf(r) == IF r.panic THEN Ret("panic", "none", Absent, NoErr)
            ELSE IF r.err.kind # "none" THEN Ret("err", "none", Absent, r.err)
            ELSE Ret("ok", "none", Absent, NoErr)

IsOptions(q) == q.method = "OPTIONS"

\* the answer to the request of a handler call (a handler issues at most one)
NoAnswer == [asked |-> FALSE, neterr |-> FALSE, status |-> 0]
Answered(resp) ==
    answered' = IF sent' = <<>> THEN NoAnswer
                ELSE [asked |-> TRUE, neterr |-> resp.neterr, status |-> resp.status]

Observe(o, s, r) ==
    /\ op' = o
    /\ sent' = s
    /\ ret' = r
    /\ nOps' = nOps + 1
    /\ nOptions' = nOptions + Len(SelectSeq(s, IsOptions))
    /\ nOptionsOk' = nOptionsOk + (IF Len(SelectSeq(s, IsOptions)) > 0 /\ r.kind = "ok" /\ r.by = "self"
                                     THEN 1 ELSE 0)
    /\ probedOk' = IF Len(SelectSeq(s, IsOptions)) > 0 /\ r.kind = "ok" /\ r.by = "self"
                     THEN probedOk \cup {o.target} ELSE probedOk
    /\ lastBegin' = IF o.kind = "BeginEdit" /\ o.editRoot
                      THEN (IF o.new THEN "new" ELSE "update") ELSE lastBegin
    /\ begunOk' = (begunOk \/ (o.kind = "BeginEdit" /\ o.editRoot /\ r.kind = "ok"))
    /\ written' = IF o.kind = "BeginEdit" /\ o.editRoot /\ r.kind = "ok" THEN EmptyData
                  ELSE IF o.kind = "Field" /\ o.write /\ r.by = "overlay"
                    THEN [written EXCEPT ![o.meta] = o.val]
                  ELSE IF o.kind = "Child" /\ o.new /\ r.by = "overlay"
                    THEN [written EXCEPT ![o.meta] = Obj]
                  ELSE written
    /\ pre' = [readNil |-> read.nil, editNil |-> edit.nil, found |-> found]
    /\ kept' = (<<read, edit, changes>>' = <<read, edit, changes>>)
    /\ same' = (drv' = drv)

-----------------------------------------------------------------------------
(* Handlers of clientNode.node (client.go 353-452) *)

\* the navigational branch shared by OnChild and OnNext
Navigate(r, resp) ==
    LET v == ValidNavigation(r.target, resp)
    IN  /\ found' = v.found
        /\ UNCHANGED <<read, edit, changes, method>>
        /\ Observe(r, v.sent,
                   IF v.err.kind # "none" THEN Ret("err", "none", Absent, v.err)
                   ELSE IF ~v.valid THEN Ret("ok", "none", Absent, NoErr)
                   ELSE Ret("ok", "self", Absent, NoErr))

\* the read-mode tail shared by OnChild, OnNext and OnField
ReadMode(r, resp) ==
    IF read.nil
      THEN LET g == StartReadMode(SelPath, resp)
           IN  IF g.panic
                 THEN /\ UNCHANGED drv
                      /\ Observe(r, g.sent, RetOf(g))
               ELSE /\ read' = g.node
                    /\ UNCHANGED <<edit, changes, found, method>>
                    /\ Observe(r, g.sent,
                               IF g.err.kind # "none" THEN RetOf(g)
                               ELSE Ret("ok", "read",
                                        IF r.kind = "Next" THEN Absent ELSE g.node.data[r.meta],
                                        NoErr))
      ELSE /\ UNCHANGED drv
           /\ Observe(r, <<>>, Ret("ok", "read",
                                   IF r.kind = "Next" THEN Absent ELSE read.data[r.meta], NoErr))

\* the verb chosen without looking at r.New
EditVerbAlwaysPut(new) == "PUT"

\* OnBeginEdit's choice of verb (client.go 359-363)
EditVerb(new) == IF new THEN "POST" ELSE "PUT"

\* startEditMode without its "if err != nil { return err }"
PrefetchedIgnoringError(g) == ~g.panic

\* startEditMode goes on past the pre-fetch (client.go 465-467)
Prefetched(g) == ~g.panic /\ g.err.kind = "none"

\* the read-handle tested before the edit-handle
EditActiveUnlessRead == ~edit.nil /\ read.nil

\* self.edit != nil (client.go 378, 395, 408)
EditActive == ~edit.nil

\* OnEndEdit sending the snapshot in place of the change buffer
EndEditSourceSnapshot == edit.existing

\* the node OnEndEdit serializes: r.Selection.Split(self.changes) (client.go 448)
EndEditSource == changes

OnBeginEdit(r, resp) ==
    IF ~r.editRoot
      THEN /\ UNCHANGED drv
           /\ Observe(r, <<>>, Ret("ok", "none", Absent, NoErr))
      ELSE LET g == StartEditMode(SelPath, resp)
           IN  /\ method' = EditVerb(r.new)
               /\ IF ~Prefetched(g)
                    THEN UNCHANGED <<edit, changes>>
                    ELSE /\ changes' = Node(EmptyData)
                         /\ edit' = Extend(g.node)
               /\ UNCHANGED <<read, found>>
               /\ Observe(r, g.sent, RetOf(g))

\* OnChild looking at the edit-handle before r.Delete
OnChildEditBeforeDelete(r, resp) ==
    IF IsNavigation(r) THEN Navigate(r, resp)
    ELSE IF EditActive
      THEN LET c == EditOnChild(r)
           IN  /\ changes' = c.buf
               /\ UNCHANGED <<read, edit, found, method>>
               /\ Observe(r, <<>>, Ret("ok", c.by, c.val, NoErr))
    ELSE IF r.delete
      THEN LET q == Request("DELETE", SelPath \o <<r.meta>>, NoSelection, resp)
           IN  /\ UNCHANGED drv
               /\ Observe(r, q.sent, RetOf(q))
    ELSE ReadMode(r, resp)

OnChild(r, resp) ==
    IF IsNavigation(r) THEN Navigate(r, resp)
    ELSE IF r.delete
      THEN LET q == Request("DELETE", SelPath \o <<r.meta>>, NoSelection, resp)
           IN  /\ UNCHANGED drv
               /\ Observe(r, q.sent, RetOf(q))
    ELSE IF EditActive
      THEN LET c == EditOnChild(r)
           IN  /\ changes' = c.buf
               /\ UNCHANGED <<read, edit, found, method>>
               /\ Observe(r, <<>>, Ret("ok", c.by, c.val, NoErr))
    ELSE ReadMode(r, resp)

OnNext(r, resp) ==
    IF IsNavigation(r) THEN Navigate(r, resp)
    ELSE IF EditActive
      THEN /\ UNCHANGED drv
           /\ Observe(r, <<>>, Ret("ok", "overlay", Absent, NoErr))
    ELSE ReadMode(r, resp)

OnField(r, resp) ==
    IF IsNavigation(r)
      THEN /\ UNCHANGED drv
           /\ Observe(r, <<>>, Ret("ok", "none", Absent, NoErr))
    ELSE IF EditActive
      THEN LET f == ReflectField(changes, r)
           IN  /\ changes' = f.buf
               /\ UNCHANGED <<read, edit, found, method>>
               /\ Observe(r, <<>>, Ret("ok", "overlay", f.val, NoErr))
    ELSE ReadMode(r, resp)

OnEndEdit(r, lib, resp) ==
    IF ~r.editRoot \/ r.delete
      THEN /\ UNCHANGED drv
           /\ Observe(r, <<>>, Ret("ok", "none", Absent, NoErr))
      ELSE LET q == Request(method, SelPath, Split(EndEditSource, lib), resp)
           IN  /\ UNCHANGED drv
               /\ Observe(r, q.sent, RetOf(q))

-----------------------------------------------------------------------------
(* One driver instance under any sequence of requests *)

-----------------------------------------------------------------------------
(* The birding browser of TestAuthConstraints (authorize_test.go 30-66) *)

\* Permission levels, in their order
PermNone == 0
PermRead == 1
PermWrite == 2
PermFull == 3
Perms == {PermNone, PermRead, PermWrite, PermFull}
\* no entry for the path in acl.Access
Unset == 4

\* module birding { leaf count; container owner { leaf name } action fieldtrip;
\* notification identified }
BirdingPath == <<"birding">>
CountPath == <<"birding", "count">>
OwnerPath == <<"birding", "owner">>
NamePath == <<"birding", "owner", "name">>
FieldtripPath == <<"birding", "fieldtrip">>
IdentifiedPath == <<"birding", "identified">>
AllPaths == {BirdingPath, CountPath, OwnerPath, NamePath, FieldtripPath, IdentifiedPath}
LeafPaths == {CountPath, NamePath}
\* the paths role entries are written for
AclPaths == {BirdingPath, OwnerPath, NamePath}

\* acl := NewRole(): no entries
EmptyRole == [p \in AllPaths |-> Unset]
Roles == { r \in [AllPaths -> Perms \cup {Unset}] : \A p \in AllPaths \ AclPaths : r[p] = Unset }

\* dataStr: {"count": 10, "owner": {"name": "ethel"}}
BirdingData == [count |-> "10", owner |-> TRUE, name |-> "ethel"]

NoAuthReq == [kind |-> "none", path |-> BirdingPath, val |-> Absent]
AuthResult(reached, val, sel, err, called) ==
    [reached |-> reached, val |-> val, sel |-> sel, err |-> err, called |-> called,
     before |-> store]
NoAuthResult == [reached |-> TRUE, val |-> Absent, sel |-> FALSE, err |-> "none",
                 called |-> FALSE, before |-> BirdingData]

AuthIdle ==
    /\ role = EmptyRole /\ notifyNeeds = PermFull /\ store = BirdingData
    /\ areq = NoAuthReq /\ ares = NoAuthResult /\ events = <<>> /\ subOpen = FALSE

\* no transport or action call observed
NoCall == [kind |-> "none"]
WireIdle == allowRpcUnderData = FALSE /\ actionWrapperOff = FALSE /\ call = NoCall

StreamIdle ==
    /\ rpc = "idle" /\ fpc = "idle" /\ pending = NoEvent /\ got = NoEvent
    /\ cancelled = FALSE /\ delivered = <<>> /\ takenSeq = <<>>
    /\ sseOpen = TRUE

Init ==
    /\ read = NilNode
    /\ edit = NilEdit
    /\ changes = NilNode
    /\ found = FALSE
    /\ method = ""
    /\ op = NoOp
    /\ sent = <<>>
    /\ ret = Ret("ok", "none", Absent, NoErr)
    /\ nOps = 0 /\ nOptions = 0 /\ nOptionsOk = 0 /\ probedOk = {} /\ lastBegin = "none"
    /\ begunOk = FALSE /\ written = EmptyData
    /\ pre = [readNil |-> TRUE, editNil |-> TRUE, found |-> FALSE] /\ kept = TRUE /\ same = TRUE
    /\ answered = NoAnswer
    /\ StreamIdle /\ wrapperOff = FALSE /\ sseCloses = FALSE
    /\ WireIdle
    /\ AuthIdle

BeginEdit ==
    /\ nOps < MaxOps
    /\ \E r \in BeginRequests : \E resp \in Answers(r.editRoot) :
          OnBeginEdit(r, resp) /\ Answered(resp)
    /\ UNCHANGED <<strm, wire, auth>>

Child ==
    /\ nOps < MaxOps
    /\ \E r \in ChildRequests :
          \E resp \in Answers(IF IsNavigation(r) THEN ~found
                              ELSE r.delete \/ (edit.nil /\ read.nil)) :
             OnChild(r, resp) /\ Answered(resp)
    /\ UNCHANGED <<strm, wire, auth>>

ListNext ==
    /\ nOps < MaxOps
    /\ \E r \in ListRequests :
          \E resp \in Answers(IF IsNavigation(r) THEN ~found ELSE edit.nil /\ read.nil) :
             OnNext(r, resp) /\ Answered(resp)
    /\ UNCHANGED <<strm, wire, auth>>

Field ==
    /\ nOps < MaxOps
    /\ \E r \in FieldRequests :
          \E resp \in Answers(~IsNavigation(r) /\ edit.nil /\ read.nil) :
             OnField(r, resp) /\ Answered(resp)
    /\ UNCHANGED <<strm, wire, auth>>

EndEdit ==
    /\ nOps < MaxOps
    /\ \E r \in EndRequests :
          \E lib \in (IF changes.nil /\ r.editRoot /\ ~r.delete THEN NilSplit ELSE {"isnil"}) :
             \E resp \in Answers(r.editRoot /\ ~r.delete /\ (changes.nil => lib = "isnil")) :
                OnEndEdit(r, lib, resp) /\ Answered(resp)
    /\ UNCHANGED <<strm, wire, auth>>

Next == BeginEdit \/ Child \/ ListNext \/ Field \/ EndEdit

Spec == Init /\ [][Next]_vars

-----------------------------------------------------------------------------
(* Properties of the driver instance (Spec) *)

IsNavOp == op.kind \in {"Child", "Next"} /\ IsNavigation(op)
\* a non-navigational, non-delete Child, Field or Next request
IsDataOp == op.kind \in {"Child", "Field", "Next"} /\ ~IsNavigation(op) /\ ~op.delete
IsRootEnd == op.kind = "EndEdit" /\ op.editRoot /\ ~op.delete
SentOptions == Len(SelectSeq(sent, IsOptions))
GetAt(params) == [method |-> "GET", params |-> params, path |-> SelPath, payload |-> NoPayload]

\* C1 as claimed: over any sequence of navigational Child and Next requests and
\* any server responses, the instance issues at most one OPTIONS request in total.
C1_AtMostOneOptions == nOptions <= 1

\* C1 amended: at most one OPTIONS request is ever answered with success, and a
\* call that issues OPTIONS on an instance whose flag is set is the very call
\* whose probe set it: once a probe has succeeded no further OPTIONS goes out.
\* (A failed probe leaves the flag unset and the next navigation probes again.)
C1_OneSuccessfulProbe ==
    /\ nOptionsOk <= 1
    /\ (nOptionsOk = 1) = found
    /\ (SentOptions > 0 /\ found) => (IsNavOp /\ ret.kind = "ok" /\ ret.by = "self")
    /\ (IsNavOp /\ SentOptions = 0) => found

\* C1 witness: two probes went out, one succeeded, and a later navigation was
\* answered from the memoized flag without a request.
C1_Witness ==
    /\ nOptions = 2 /\ nOptionsOk = 1
    /\ IsNavOp /\ sent = <<>> /\ ret.by = "self"

\* C2: after a root-scope BeginEdit has succeeded, every non-navigational,
\* non-delete Child, Field and Next request is answered by the edit-handle (its
\* overlay or its snapshot): no transport call, the read-handle neither created
\* nor consulted, also when a read-handle existed before the edit began.
C2_EditTakesPrecedence ==
    (begunOk /\ IsDataOp) =>
        /\ sent = <<>>
        /\ ret.kind = "ok" /\ ret.by \in {"overlay", "snapshot"}
        /\ kept \/ (~read.nil = ~pre.readNil)

\* C2 witness: a read-handle was materialized, then the edit began, and a Child
\* request was answered by the edit-handle.
C2_Witness ==
    /\ begunOk /\ ~read.nil /\ IsDataOp /\ op.kind = "Child"
    /\ ret.by \in {"overlay", "snapshot"} /\ sent = <<>>

\* C3: a root-scope, non-delete EndEdit over a change buffer issues exactly one
\* request, to the selection path, with the verb of the latest root-scope
\* BeginEdit (POST if it was flagged new, PUT otherwise) and the serialized
\* change buffer as body; BeginEdit and EndEdit that are not at root scope
\* issue no request and change no field of the instance.
C3_EndEditSendsStoredVerb ==
    /\ (IsRootEnd /\ ~changes.nil) =>
          sent = << [method |-> IF lastBegin = "new" THEN "POST" ELSE "PUT",
                     params |-> "", path |-> SelPath,
                     payload |-> WriteJSON(changes.data)] >>
    /\ (op.kind \in {"BeginEdit", "EndEdit"} /\ ~op.editRoot) => (sent = <<>> /\ same)

\* C3 witness: the latest root BeginEdit was flagged new, a field was written,
\* and EndEdit sent a POST carrying it.
C3_Witness ==
    /\ IsRootEnd /\ lastBegin = "new" /\ Len(sent) = 1
    /\ sent[1].method = "POST" /\ Len(sent[1].payload.obj) = 1

\* snapshot members under the values the edit wrote: what a merged body holds
Merged(snapshot, overlay) ==
    [m \in Members |-> IF overlay[m] # Absent THEN overlay[m] ELSE snapshot[m]]

\* C4 as claimed: the body sent by EndEdit holds every value the edit set and
\* every snapshot sibling the edit did not touch.
C4_SiblingsPreserved ==
    (IsRootEnd /\ begunOk /\ Len(sent) = 1) =>
        sent[1].payload = WriteJSON(Merged(edit.existing.data, written))

\* C4 amended: the body sent by EndEdit is the change buffer alone: every field
\* written and every child created through the edit-handle at the edit root,
\* and no snapshot member the edit did not write.
C4_BodyIsWhatTheEditWrote ==
    (IsRootEnd /\ begunOk) =>
        /\ Len(sent) = 1
        /\ sent[1].payload = WriteJSON(written)
        /\ \A m \in Members : written[m] = Absent =>
              \A i \in DOMAIN sent[1].payload.obj : sent[1].payload.obj[i][2] # m

\* C4 witness: the snapshot holds y and z, the edit wrote only z, and the body
\* sent holds z and not y.
C4_Witness ==
    /\ IsRootEnd /\ begunOk /\ Len(sent) = 1
    /\ edit.existing.data = Fixture
    /\ written = [y |-> Absent, z |-> "yo"]
    /\ sent[1].payload.obj = << <<"m", "z", "yo">> >>

\* C5 as claimed: in edit mode a child lookup is answered by the overlay when
\* the overlay holds the child, and by the snapshot only when it does not.
C5_OverlayFirst ==
    (begunOk /\ IsDataOp /\ op.kind = "Child") =>
        (ret.by = "overlay") = (changes.data[op.meta] # Absent)

\* C5 amended: in edit mode a child lookup that is not flagged new is answered
\* by the pre-fetched snapshot, whatever the overlay holds, and one flagged new
\* is answered by the overlay, where it creates the child.
C5_NewDecidesTheLayer ==
    (begunOk /\ IsDataOp /\ op.kind = "Child") =>
        IF op.new
          THEN ret.by = "overlay" /\ ret.val = Obj /\ changes.data[op.meta] = Obj
          ELSE ret.by = "snapshot" /\ ret.val = edit.existing.data[op.meta] /\ kept

\* C5 witness: the child was created in the overlay, the snapshot has none, and
\* a later lookup not flagged new came back from the snapshot without it.
C5_Witness ==
    /\ begunOk /\ IsDataOp /\ op.kind = "Child" /\ ~op.new
    /\ changes.data[op.meta] = Obj
    /\ ret.by = "snapshot" /\ ret.val = Absent

\* C6 as claimed: when the pre-fetch of a root-scope BeginEdit fails, BeginEdit
\* returns the error, the instance has no edit-handle and no change buffer
\* afterwards, and its handles are as they were.
C6_FailedPrefetchLeavesNoEdit ==
    (op.kind = "BeginEdit" /\ op.editRoot /\ ret.kind = "err") =>
        /\ sent = << GetAt(EditParams) >> /\ ret.err.kind \in {"net", "http"}
        /\ edit.nil /\ changes.nil
        /\ kept

\* C6 amended: when the pre-fetch fails, BeginEdit returns the error and leaves
\* edit-handle, change buffer and read-handle exactly as they were: an instance
\* that was not in edit mode is not in it afterwards, one that held an
\* edit-handle from an earlier BeginEdit still holds it.
C6_FailedPrefetchKeepsHandles ==
    (op.kind = "BeginEdit" /\ op.editRoot /\ ret.kind = "err") =>
        /\ sent = << GetAt(EditParams) >> /\ ret.err.kind \in {"net", "http"}
        /\ kept
        /\ edit.nil = pre.editNil /\ changes.nil = pre.editNil

\* C6 witness: a BeginEdit failed on an instance that holds the edit-handle of
\* an earlier one.
C6_Witness ==
    /\ op.kind = "BeginEdit" /\ op.editRoot /\ ret.kind = "err"
    /\ ~edit.nil /\ ~changes.nil /\ begunOk

\* C7: with no edit-handle, a non-navigational, non-delete Child, Field or Next
\* request issues a parameterless GET at the selection path exactly when no
\* read-handle exists; a GET that succeeded leaves the read-handle set and the
\* request answered by it, a GET that failed leaves it unset and returns the
\* error.
C7_ReadHandleMemoized ==
    (~begunOk /\ IsDataOp) =>
        /\ sent = IF pre.readNil THEN << GetAt("") >> ELSE <<>>
        /\ IF ret.kind = "err"
             THEN read.nil /\ pre.readNil
             ELSE ~read.nil /\ ret.kind = "ok" /\ ret.by = "read"

-----------------------------------------------------------------------------
(* The subscription pipeline: OnNotify (client.go 418-436) starts              *)
(* client.clientStream (165-245) and a goroutine that ranges over its channel. *)
(* The channel is unbuffered: a send and a receive meet in one step (Handoff). *)
(* Nothing closes the channel, so the range loop has no exit.                  *)

DriverIdle ==
    /\ read = NilNode /\ edit = NilEdit /\ changes = NilNode /\ found = FALSE /\ method = ""
    /\ op = NoOp /\ sent = <<>> /\ ret = Ret("ok", "none", Absent, NoErr)
    /\ nOps = 0 /\ nOptions = 0 /\ nOptionsOk = 0 /\ probedOk = {} /\ lastBegin = "none"
    /\ begunOk = FALSE /\ written = EmptyData
    /\ pre = [readNil |-> TRUE, editNil |-> TRUE, found |-> FALSE] /\ kept = TRUE /\ same = TRUE
    /\ answered = NoAnswer

StreamInit ==
    /\ DriverIdle
    /\ StreamIdle
    /\ WireIdle
    /\ AuthIdle
    /\ wrapperOff \in BOOLEAN
    /\ sseCloses \in BOOLEAN

\* OnNotify: clientStream builds the request; on failure cancel() and no goroutine
Notify ==
    /\ rpc = "idle"
    /\ \E reqOk \in BOOLEAN :
          IF reqOk THEN /\ rpc' = "connect" /\ fpc' = "recv" /\ UNCHANGED cancelled
          ELSE /\ rpc' = "unstarted" /\ fpc' = "unstarted" /\ cancelled' = TRUE
    /\ UNCHANGED <<drv, obs, hist, wire, auth>>
    /\ UNCHANGED <<pending, got, delivered, takenSeq, wrapperOff, sseOpen, sseCloses>>

\* resp, err := c.client.Do(req)
Connect ==
    /\ rpc = "connect"
    /\ \E ok \in BOOLEAN :
          IF ok THEN /\ rpc' = "select" /\ UNCHANGED pending
          ELSE /\ rpc' = "sendErr" /\ pending' = ErrorEvent("connect")
    /\ UNCHANGED <<drv, obs, hist, wire, auth>>
    /\ UNCHANGED <<fpc, got, cancelled, delivered, takenSeq, wrapperOff, sseOpen, sseCloses>>

\* case event := <-events: decode it; the select may take this case whether
\* or not ctx is done
Take ==
    /\ rpc = "select"
    /\ sseOpen
    /\ Len(takenSeq) < MaxChunks
    /\ \E c \in Chunks :
          /\ takenSeq' = Append(takenSeq, c)
          /\ pending' = DecodeEvent(c, wrapperOff)
    /\ rpc' = "send"
    /\ UNCHANGED <<drv, obs, hist, wire, auth>>
    /\ UNCHANGED <<fpc, got, cancelled, delivered, wrapperOff, sseOpen, sseCloses>>

\* the same case on a closed channel: the receive yields nil at once
TakeClosed ==
    /\ rpc = "select"
    /\ ~sseOpen /\ sseCloses
    /\ Len(takenSeq) < MaxChunks
    /\ takenSeq' = Append(takenSeq, NilChunk)
    /\ pending' = DecodeEvent(NilChunk, wrapperOff)
    /\ rpc' = "send"
    /\ UNCHANGED <<drv, obs, hist, wire, auth>>
    /\ UNCHANGED <<fpc, got, cancelled, delivered, wrapperOff, sseOpen, sseCloses>>

\* case <-ctx.Done(): return
ReaderCancelled ==
    /\ rpc = "select"
    /\ cancelled
    /\ rpc' = "done"
    /\ UNCHANGED <<drv, obs, hist, wire, auth>>
    /\ UNCHANGED <<fpc, pending, got, cancelled, delivered, takenSeq, wrapperOff, sseOpen, sseCloses>>

\* "stream <- e" meets "n := range events"
Handoff ==
    /\ rpc \in {"send", "sendErr"}
    /\ fpc = "recv"
    /\ got' = pending
    /\ pending' = NoEvent
    /\ fpc' = "call"
    /\ rpc' = IF rpc = "send" THEN "select" ELSE "done"
    /\ UNCHANGED <<drv, obs, hist, wire, auth>>
    /\ UNCHANGED <<cancelled, delivered, takenSeq, wrapperOff, sseOpen, sseCloses>>

\* r.SendWhen(n.Node, n.Timestamp)
SendWhen ==
    /\ fpc = "call"
    /\ delivered' = Append(delivered, [ev |-> got, late |-> cancelled])
    /\ got' = NoEvent
    /\ fpc' = "recv"
    /\ UNCHANGED <<drv, obs, hist, wire, auth>>
    /\ UNCHANGED <<rpc, pending, cancelled, takenSeq, wrapperOff, sseOpen, sseCloses>>

\* the closer: cancel()
Closer ==
    /\ rpc \notin {"idle", "unstarted"}
    /\ ~cancelled
    /\ cancelled' = TRUE
    /\ UNCHANGED <<drv, obs, hist, wire, auth>>
    /\ UNCHANGED <<rpc, fpc, pending, got, delivered, takenSeq, wrapperOff, sseOpen, sseCloses>>

\* the server ends or fails the response stream
ServerEnd ==
    /\ rpc \in {"select", "send"}
    /\ sseOpen
    /\ sseOpen' = FALSE
    /\ UNCHANGED <<drv, obs, hist, wire, auth>>
    /\ UNCHANGED <<rpc, fpc, pending, got, cancelled, delivered, takenSeq, wrapperOff, sseCloses>>

StreamNext ==
    \/ Notify \/ Connect \/ Take \/ TakeClosed \/ ReaderCancelled
    \/ Handoff \/ SendWhen \/ Closer \/ ServerEnd

StreamSpec == StreamInit /\ [][StreamNext]_vars

\* The Go scheduler runs every goroutine that can run: the reader leaves the
\* select once ctx is done, a send meets a waiting receive, the callback returns.
\* What the server sends and when the caller cancels are not in its hands.
StreamFair ==
    /\ StreamSpec
    /\ WF_vars(Connect)
    /\ WF_vars(ReaderCancelled)
    /\ WF_vars(Handoff)
    /\ WF_vars(SendWhen)

-----------------------------------------------------------------------------
(* Properties of the subscription pipeline (StreamSpec, StreamFair) *)

\* C8: once the closer has been called, no event is passed to the subscriber,
\* whatever the interleaving of reader, forwarder and caller, an event pending
\* on the channel at the moment of cancellation included.
C8_NoDeliveryAfterCancel == \A i \in DOMAIN delivered : ~delivered[i].late

\* C9: after the subscription is cancelled, or after the server ends or fails
\* the stream, the reading task and the forwarding task both terminate.
C9_PipelineShutsDown ==
    (cancelled \/ ~sseOpen) ~> (rpc \in {"done", "unstarted"} /\ fpc \in {"done", "unstarted"})

\* every event of the subscription in order: passed on, held by the forwarder,
\* held by the reader
HeldEvents(e) == IF e = NoEvent THEN <<>> ELSE <<e>>
AllEvents == [i \in 1..Len(delivered) |-> delivered[i].ev] \o HeldEvents(got) \o HeldEvents(pending)
FromChunk(e) == e.reason # "connect"
ChunkEvents == SelectSeq(AllEvents, FromChunk)

\* the structural violations of a chunk, in the order the claim gives them
Violated(v) == v[2]
Violations(c) ==
    SelectSeq(<< <<"unparsable JSON", ~c.json>>,
                 <<"missing notification wrapper", ~c.wrapper>>,
                 <<"missing event", ~c.event>>,
                 <<"missing eventTime", c.time = "missing">>,
                 <<"wrong time format", c.time = "bad">> >>, Violated)
Enveloped(c) ==
    IF Violations(c) = <<>> THEN Event("payload", "none", c.time, "event")
    ELSE ErrorEvent(Violations(c)[1][1])

\* C10 as claimed: every chunk taken yields exactly one event, in order; with
\* the envelope enabled a payload event stamped with the parsed eventTime when
\* the chunk has no structural violation, else an error event naming the first
\* violation; with the envelope disabled the whole chunk as payload, stamped
\* with the receipt time.
C10_OneEventPerChunk ==
    ChunkEvents = [i \in 1..Len(takenSeq) |->
                     IF wrapperOff THEN Event("payload", "none", "now", "chunk")
                     ELSE Enveloped(takenSeq[i])]

\* C10 amended: as claimed, except that with the envelope disabled only a chunk
\* that parses as a JSON object is the payload (whole, stamped with the receipt
\* time); a chunk that does not parse yields an error event there too.
C10_OneEventPerParsedChunk ==
    ChunkEvents = [i \in 1..Len(takenSeq) |->
                     IF ~wrapperOff THEN Enveloped(takenSeq[i])
                     ELSE IF takenSeq[i].json THEN Event("payload", "none", "now", "chunk")
                     ELSE ErrorEvent("unparsable JSON")]

\* C10 witness: with the envelope enabled two chunks were taken and both events
\* passed on: a payload stamped t2 and an error for a chunk that lacks both
\* the event and the eventTime.
C10_Witness ==
    /\ ~wrapperOff /\ Len(delivered) = 2
    /\ takenSeq = << Chunk(TRUE, TRUE, TRUE, "t2"), Chunk(TRUE, TRUE, FALSE, "missing") >>
    /\ delivered[1].ev = Event("payload", "none", "t2", "event")
    /\ delivered[2].ev = ErrorEvent("missing event")

-----------------------------------------------------------------------------
(* The wire: client.clientDo (client.go 274-312) and clientNode.requestAction  *)
(* (520-562) applied to any request under any compliance setting.              *)

\* meta.RootModule(p.Meta).Ident() and meta.OriginalModule(p.Meta).Ident(): the
\* module "m" of the test fixture (part_000 68)
ModuleIdent == "m"

\* c.address.Data and c.address.Operations
DataEndpoint == "data/"
OperationsEndpoint == "operations/"

\* a node.Path, by what clientDo reads of it: StringNoModule() (segs),
\* meta.IsAction(p.Meta) and p.Meta.Parent() == mod
WirePath(segs, action, underModule) ==
    [segs |-> segs, action |-> action, underModule |-> underModule]
WirePaths == { WirePath(<<"x">>, FALSE, TRUE), WirePath(<<"x", "y">>, FALSE, FALSE),
               WirePath(<<"fieldtrip">>, TRUE, TRUE), WirePath(<<"x", "reset">>, TRUE, FALSE) }
ActionPaths == { p \in WirePaths : p.action }

Methods == {"GET", "POST", "PUT", "DELETE", "OPTIONS"}

\* the URL as the pieces fmt.Sprint concatenates
Url(endpoint, mod, segs, query) ==
    [endpoint |-> endpoint, module |-> mod, sep |-> ":", path |-> segs, query |-> query]

\* every action sent to the operations endpoint, nested ones too
FullUrlAnyAction(allow, p, params) ==
    Url(IF p.action /\ ~allow THEN OperationsEndpoint ELSE DataEndpoint,
        ModuleIdent, p.segs, IF params # "" THEN <<"?", params>> ELSE <<>>)

\* fullUrl of clientDo (client.go 277-288)
FullUrl(allow, p, params) ==
    LET isRootLevelRpc == p.underModule
        endpoint == IF p.action /\ ~allow
                      THEN (IF isRootLevelRpc THEN OperationsEndpoint ELSE DataEndpoint)
                    ELSE DataEndpoint
    IN  Url(endpoint, ModuleIdent, p.segs, IF params # "" THEN <<"?", params>> ELSE <<>>)

\* clientDo with the URL it addresses
ClientCall(allow, m, params, p, payload, resp) ==
    LET d == ClientDo(m, params, p.segs, payload, resp)
    IN  [url |-> FullUrl(allow, p, params), req |-> d.req, body |-> d.body, err |-> d.err]

\* A response body to an action, by what json.Decode and the type assertion of
\* requestAction find in it: json (it decodes into an object), output ("object"
\* when an object sits under "<module>:output", "other" when something else
\* does, "absent"), outdata (the content of that object), data (the members the
\* body holds at top level).
ActionBody(json, output, outdata, d) ==
    [present |-> TRUE, json |-> json, output |-> output, outdata |-> outdata, data |-> d]
ActionBodies ==
    { ActionBody(FALSE, "absent", EmptyData, EmptyData),      \* no JSON, or no bytes
      ActionBody(TRUE, "absent", EmptyData, EmptyData),       \* {}
      ActionBody(TRUE, "absent", EmptyData, Fixture),         \* {"y":{},"z":"hi"}
      ActionBody(TRUE, "other", EmptyData, EmptyData),        \* {"m:output":"hi"}
      ActionBody(TRUE, "object", EmptyData, EmptyData),       \* {"m:output":{}}
      ActionBody(TRUE, "object", Fixture, EmptyData) }        \* {"m:output":{"y":{},"z":"hi"}}
ActionResponses ==
    { NoResponse } \cup
    { [neterr |-> FALSE, status |-> 200, body |-> b] : b \in {NoBody} \cup ActionBodies } \cup
    { [neterr |-> FALSE, status |-> s, body |-> NoBody] : s \in Statuses \ {200} } \cup
    { [neterr |-> FALSE, status |-> 500, body |-> ActionBody(TRUE, "absent", EmptyData, EmptyData)] }

\* r.Input: no selection, or a selection over the input data
ActionInputs == { NoSelection } \cup { Split(Node(d), "isnil") : d \in {EmptyData, Fixture} }

\* fmt.Fprintf(&payload, `{"%s:input":`, ...) ... "}" around the serialized input
WrapInput(mod, payload) == [empty |-> FALSE, key |-> <<mod, "input">>, obj |-> payload.obj]

DecodeErr == [kind |-> "decode", status |-> 0, body |-> NoBody]
MissingOutputErr == [kind |-> "contract", status |-> 0, body |-> NoBody]

\* nodeutil.ReadJSONValues(respVals)
ReadJSONValues(vals) == Node(vals)

ActionResult(c, n, e) == [url |-> c.url, req |-> c.req, body |-> c.body, err |-> e, node |-> n]

\* requestAction that reads the response body without looking for the output key
RequestActionNoUnwrap(allow, off, p, in, resp) ==
    LET payload == IF in.isNil THEN NoPayload
                   ELSE IF off THEN WriteJSON(in.node.data)
                   ELSE WrapInput(ModuleIdent, WriteJSON(in.node.data))
        c == ClientCall(allow, "POST", "", p, payload, resp)
    IN  IF c.err.kind # "none" THEN ActionResult(c, NilNode, c.err)
        ELSE IF c.body.present THEN ActionResult(c, ReadJSONIO(c.body), NoErr)
        ELSE ActionResult(c, NilNode, NoErr)

\* clientNode.requestAction (client.go 520-562)
RequestAction(allow, off, p, in, resp) ==
    LET payload == IF in.isNil THEN NoPayload
                   ELSE IF off THEN WriteJSON(in.node.data)
                   ELSE WrapInput(ModuleIdent, WriteJSON(in.node.data))
        c == ClientCall(allow, "POST", "", p, payload, resp)
    IN  IF c.err.kind # "none" THEN ActionResult(c, NilNode, c.err)
        ELSE IF c.body.present
          THEN IF ~off
                 THEN IF ~c.body.json THEN ActionResult(c, NilNode, DecodeErr)
                      ELSE IF c.body.output # "object"
                        THEN ActionResult(c, NilNode, MissingOutputErr)
                      ELSE ActionResult(c, ReadJSONValues(c.body.outdata), NoErr)
               ELSE ActionResult(c, ReadJSONIO(c.body), NoErr)
        ELSE ActionResult(c, NilNode, NoErr)

Call(kind, m, params, p, in, resp, out) ==
    [kind |-> kind, method |-> m, params |-> params, p |-> p, in |-> in, resp |-> resp,
     url |-> out.url, req |-> out.req, body |-> out.body, err |-> out.err, node |-> out.node]

WireInit ==
    /\ DriverIdle
    /\ StreamIdle /\ wrapperOff = FALSE /\ sseCloses = FALSE
    /\ allowRpcUnderData \in BOOLEAN
    /\ actionWrapperOff \in BOOLEAN
    /\ call = NoCall
    /\ AuthIdle

\* one call of clientDo
Do ==
    /\ call = NoCall
    /\ \E m \in Methods, params \in {"", EditParams}, p \in WirePaths,
          payload \in {NoPayload, WriteJSON(Fixture)}, resp \in Responses :
          LET c == ClientCall(allowRpcUnderData, m, params, p, payload, resp)
          IN  call' = Call("do", m, params, p, NoSelection, resp,
                           ActionResult(c, NilNode, c.err))
    /\ UNCHANGED <<allowRpcUnderData, actionWrapperOff>>
    /\ UNCHANGED <<drv, obs, hist, strm, auth>>

\* OnAction: self.requestAction(r.Selection.Path, r.Input) (client.go 437-439)
Action ==
    /\ call = NoCall
    /\ \E p \in ActionPaths, in \in ActionInputs, resp \in ActionResponses :
          call' = Call("action", "POST", "", p, in, resp,
                       RequestAction(allowRpcUnderData, actionWrapperOff, p, in, resp))
    /\ UNCHANGED <<allowRpcUnderData, actionWrapperOff>>
    /\ UNCHANGED <<drv, obs, hist, strm, auth>>

\* the caller has the result; the client keeps nothing of the call
Return ==
    /\ call # NoCall
    /\ call' = NoCall
    /\ UNCHANGED <<allowRpcUnderData, actionWrapperOff>>
    /\ UNCHANGED <<drv, obs, hist, strm, auth>>

WireNext == Do \/ Action \/ Return

WireSpec == WireInit /\ [][WireNext]_vars

-----------------------------------------------------------------------------
(* Properties of the wire (WireSpec) *)

Is2xx(status) == status >= 200 /\ status <= 299

\* C11: the transport call returns an error carrying the status code and the
\* body text exactly when the response status is outside the 2xx range; every
\* 2xx response is a success, and a success with no body returns neither a
\* payload nor an error.
C11_ErrorExactlyOutside2xx ==
    (call.kind # "none" /\ ~call.resp.neterr) =>
        IF Is2xx(call.resp.status)
          THEN /\ call.err = NoErr
               /\ call.body = call.resp.body
          ELSE /\ call.err = HttpErr(call.resp.status, call.resp.body)
               /\ call.body = NoBody

\* C12: with action wrapping enabled the POST body for a supplied input is
\* {"<module>:input": <serialized input>}, and a response body is accepted only
\* if it decodes to an object holding an object under "<module>:output", whose
\* content is the result; a body without that key fails with a protocol-contract
\* error.  With wrapping disabled no wrapper is written and none is required:
\* the input is sent as it serializes and the whole body is the result.
C12_ActionEnvelope ==
    (call.kind = "action") =>
        /\ call.req.method = "POST"
        /\ call.req.payload =
              IF call.in.isNil THEN NoPayload
              ELSE IF actionWrapperOff THEN WriteJSON(call.in.node.data)
              ELSE [empty |-> FALSE, key |-> <<ModuleIdent, "input">>,
                    obj |-> WriteJSON(call.in.node.data).obj]
        /\ call.body.present =>
              IF actionWrapperOff
                THEN call.err = NoErr /\ call.node = Node(call.resp.body.data)
              ELSE IF call.resp.body.json /\ call.resp.body.output = "object"
                THEN call.err = NoErr /\ call.node = Node(call.resp.body.outdata)
              ELSE /\ call.node = NilNode
                   /\ call.err.kind = IF call.resp.body.json THEN "contract" ELSE "decode"

\* C12 witness: wrapping enabled, an empty input sent as {"m:input":{}}, the
\* response {"m:output":{}} accepted with an empty result.
C12_Witness ==
    /\ call.kind = "action" /\ ~actionWrapperOff
    /\ call.req.payload = [empty |-> FALSE, key |-> <<"m", "input">>, obj |-> <<>>]
    /\ call.resp.body = ActionBody(TRUE, "object", EmptyData, EmptyData)
    /\ call.err = NoErr /\ call.node = Node(EmptyData)

\* C14: a request goes to the operations endpoint if and only if its target is
\* an action declared directly under the module and RPC-under-data is
\* disallowed, and to the data endpoint in every other case; the URL is
\* <endpoint><root-module>:<path-without-module>, followed by "?" and the
\* query parameters exactly when the parameters are non-empty.
C14_EndpointSelection ==
    (call.kind # "none") =>
        /\ (call.url.endpoint = OperationsEndpoint) =
              (call.p.action /\ call.p.underModule /\ ~allowRpcUnderData)
        /\ call.url.endpoint \in {OperationsEndpoint, DataEndpoint}
        /\ call.url.module = ModuleIdent /\ call.url.sep = ":"
        /\ call.url.path = call.p.segs
        /\ call.url.query = IF call.params = "" THEN <<>> ELSE <<"?", call.params>>

\* C14 witness: with RPC-under-data disallowed, a call on an action nested in a
\* container went to the data endpoint with its query parameters appended.
C14_Witness ==
    /\ call.kind = "do" /\ ~allowRpcUnderData
    /\ call.p = WirePath(<<"x", "reset">>, TRUE, FALSE)
    /\ call.url = Url(DataEndpoint, "m", <<"x", "reset">>, <<"?", EditParams>>)

-----------------------------------------------------------------------------
(* Further properties of the driver instance (Spec) *)

DeleteAt(meta) ==
    [method |-> "DELETE", params |-> "", path |-> SelPath \o <<meta>>, payload |-> NoPayload]

C15_ProbeOutcomes ==
    /\ (IsNavOp /\ SentOptions > 0) =>
          IF answered.neterr THEN ret.kind = "err" /\ ~found
          ELSE IF answered.status = 404
            THEN ret = Ret("ok", "none", Absent, NoErr) /\ ~found
          ELSE IF ~Is2xx(answered.status) THEN ret.kind = "err" /\ ~found
          ELSE (answered.status = 200) => (ret = Ret("ok", "self", Absent, NoErr) /\ found)
    /\ (found => nOptionsOk > 0)
    /\ (nOptionsOk > 0 => found)

-----------------------------------------------------------------------------
(* Access control: a Role attached to the root selection of the birding       *)
(* browser (authorize_test.go 139-147).  The checks of the Role are the        *)
(* contract of the access-control engine; the node under them and what the     *)
(* repository's test expects of them are authorize_test.go 47-65 and 67-180.   *)

\* the first entry met on the way down decides, deeper ones are ignored
RECURSIVE ResolveShallowestFrom(_, _, _, _)
ResolveShallowestFrom(acl, p, i, inherited) ==
    IF i > Len(p) THEN inherited
    ELSE LET here == SubSeq(p, 1, i)
         IN  ResolveShallowestFrom(acl, p, i + 1,
                IF acl[here] # Unset /\ inherited = Unset THEN acl[here] ELSE inherited)
ResolveShallowest(acl, p) ==
    LET r == ResolveShallowestFrom(acl, p, 1, Unset) IN IF r = Unset THEN PermNone ELSE r

\* a deeper entry may add to what the shallower ones grant, never take away
RECURSIVE ResolveMostPermissiveFrom(_, _, _, _)
ResolveMostPermissiveFrom(acl, p, i, inherited) ==
    IF i > Len(p) THEN inherited
    ELSE LET here == SubSeq(p, 1, i)
         IN  ResolveMostPermissiveFrom(acl, p, i + 1,
                IF acl[here] # Unset /\ acl[here] > inherited THEN acl[here] ELSE inherited)
ResolveMostPermissive(acl, p) == ResolveMostPermissiveFrom(acl, p, 1, PermNone)

\* Resolve, walking down from the module: every selection on the way takes the
\* permission of its own entry when the role has one, else the one it inherits
RECURSIVE ResolveFrom(_, _, _, _)
ResolveFrom(acl, p, i, inherited) ==
    IF i > Len(p) THEN inherited
    ELSE LET here == SubSeq(p, 1, i)
         IN  ResolveFrom(acl, p, i + 1, IF acl[here] # Unset THEN acl[here] ELSE inherited)
Resolve(acl, p) == ResolveFrom(acl, p, 1, PermNone)

\* a subscription asking for no more than a read does
NotifyRequestedRead == PermRead

\* what a subscription asks for: more than Read (the role {birding: Read} is
\* refused, authorize_test.go 89-103) and no more than Full (116)
NotifyRequested == notifyNeeds

\* writes, deletes and action calls asking for no more than a read does
RequestedReadForAll(kind) == IF kind = "notify" THEN NotifyRequested ELSE PermRead

\* the permission an operation asks for
Requested(kind) ==
    IF kind \in {"read", "nav"} THEN PermRead
    ELSE IF kind = "notify" THEN NotifyRequested
    ELSE PermWrite

\* every refusal silent
CheckAlwaysSilent(acl, p, kind) ==
    IF Resolve(acl, p) >= Requested(kind) THEN "ok" ELSE "hidden"

\* every refusal explicit, reads and navigations too
CheckAlwaysExplicit(acl, p, kind) ==
    IF Resolve(acl, p) >= Requested(kind) THEN "ok" ELSE "unauthorized"

\* the check of one operation: "ok", "hidden" (no error) or "unauthorized"
Check(acl, p, kind) ==
    IF Resolve(acl, p) >= Requested(kind) THEN "ok"
    ELSE IF kind \in {"read", "nav"} THEN "hidden"
    ELSE "unauthorized"

\* nodeutil.ReflectChild(data): is the container there, what does the leaf hold
Present(st, p) == p # OwnerPath \/ st.owner
FieldValue(st, p) == IF p = CountPath THEN st.count ELSE st.name
SetField(st, p, v) == IF p = CountPath THEN [st EXCEPT !.count = v] ELSE [st EXCEPT !.name = v]
SetChild(st, kind) == IF kind = "delete" THEN [st EXCEPT !.owner = FALSE, !.name = Absent]
                      ELSE [st EXCEPT !.owner = TRUE]

\* s.Find(...) down to the selection the operation at p is made on: every
\* container on the way must be there and pass the navigation check
Reached(acl, st, p) ==
    \A i \in 2..(Len(p) - 1) :
        Check(acl, SubSeq(p, 1, i), "nav") = "ok" /\ Present(st, SubSeq(p, 1, i))

\* events handed to the subscriber
DataEvent == [kind |-> "data", err |-> "none"]
UnauthorizedEvent == [kind |-> "error", err |-> "unauthorized"]

\* the values the test writes: SetValue(100), SetValue("Harvey")
WriteValue(p) == IF p = CountPath THEN "100" ELSE "Harvey"

AuthReq(kind, p, v) == [kind |-> kind, path |-> p, val |-> v]

AuthInit ==
    /\ DriverIdle
    /\ StreamIdle /\ wrapperOff = FALSE /\ sseCloses = FALSE
    /\ WireIdle
    /\ role \in Roles
    /\ notifyNeeds \in {PermWrite, PermFull}
    /\ store = BirdingData
    /\ areq = NoAuthReq /\ ares = NoAuthResult /\ events = <<>> /\ subOpen = FALSE

\* sel.Get(): s.Find("count").Get()
ReadField ==
    /\ \E p \in LeafPaths :
          /\ areq' = AuthReq("read", p, Absent)
          /\ ares' = IF ~Reached(role, store, p)
                       THEN AuthResult(FALSE, Absent, FALSE, "none", FALSE)
                     ELSE IF Check(role, p, "read") = "hidden"
                       THEN AuthResult(TRUE, Absent, FALSE, "none", FALSE)
                     ELSE IF Check(role, p, "read") # "ok"
                       THEN AuthResult(TRUE, Absent, FALSE, Check(role, p, "read"), FALSE)
                     ELSE AuthResult(TRUE, FieldValue(store, p), FALSE, "none", TRUE)
    /\ UNCHANGED <<role, notifyNeeds, store, events, subOpen>>
    /\ UNCHANGED <<drv, obs, hist, strm, wire>>

\* s.Find("owner")
FindChild ==
    /\ areq' = AuthReq("nav", OwnerPath, Absent)
    /\ ares' = IF Check(role, OwnerPath, "nav") = "hidden"
                 THEN AuthResult(TRUE, Absent, FALSE, "none", FALSE)
               ELSE IF Check(role, OwnerPath, "nav") # "ok"
                 THEN AuthResult(TRUE, Absent, FALSE, Check(role, OwnerPath, "nav"), FALSE)
               ELSE AuthResult(TRUE, Absent, Present(store, OwnerPath), "none", TRUE)
    /\ UNCHANGED <<role, notifyNeeds, store, events, subOpen>>
    /\ UNCHANGED <<drv, obs, hist, strm, wire>>

\* sel.SetValue(v)
WriteField ==
    /\ \E p \in LeafPaths :
          /\ areq' = AuthReq("write", p, WriteValue(p))
          /\ IF ~Reached(role, store, p)
               THEN /\ ares' = AuthResult(FALSE, Absent, FALSE, "none", FALSE)
                    /\ UNCHANGED store
             ELSE IF Check(role, p, "write") # "ok"
               THEN /\ ares' = AuthResult(TRUE, Absent, FALSE, Check(role, p, "write"), FALSE)
                    /\ UNCHANGED store
             ELSE /\ ares' = AuthResult(TRUE, Absent, FALSE, "none", TRUE)
                  /\ store' = SetField(store, p, WriteValue(p))
    /\ UNCHANGED <<role, notifyNeeds, events, subOpen>>
    /\ UNCHANGED <<drv, obs, hist, strm, wire>>

\* a child request flagged New or Delete on the container owner
EditChild ==
    /\ \E kind \in {"create", "delete"} :
          /\ areq' = AuthReq(kind, OwnerPath, Absent)
          /\ IF Check(role, OwnerPath, kind) # "ok"
               THEN /\ ares' = AuthResult(TRUE, Absent, FALSE, Check(role, OwnerPath, kind), FALSE)
                    /\ UNCHANGED store
             ELSE /\ ares' = AuthResult(TRUE, Absent, kind = "create", "none", TRUE)
                  /\ store' = SetChild(store, kind)
    /\ UNCHANGED <<role, notifyNeeds, events, subOpen>>
    /\ UNCHANGED <<drv, obs, hist, strm, wire>>

\* sel.Action(nil) on fieldtrip; the node's OnAction returns nil, nil
Invoke ==
    /\ areq' = AuthReq("action", FieldtripPath, Absent)
    /\ ares' = IF Check(role, FieldtripPath, "action") # "ok"
                 THEN AuthResult(TRUE, Absent, FALSE, Check(role, FieldtripPath, "action"), FALSE)
               ELSE AuthResult(TRUE, Absent, FALSE, "none", TRUE)
    /\ UNCHANGED <<role, notifyNeeds, store, events, subOpen>>
    /\ UNCHANGED <<drv, obs, hist, strm, wire>>

\* sel.Notifications(stream) on identified; the node's OnNotify sends one event
\* before it returns its closer
Subscribe ==
    /\ ~subOpen
    /\ areq' = AuthReq("notify", IdentifiedPath, Absent)
    /\ IF Check(role, IdentifiedPath, "notify") = "ok"
         THEN /\ ares' = AuthResult(TRUE, Absent, FALSE, "none", TRUE)
              /\ events' = << DataEvent >>
              /\ subOpen' = TRUE
       ELSE IF Check(role, IdentifiedPath, "notify") = "unauthorized"
         THEN /\ ares' = AuthResult(TRUE, Absent, FALSE, "none", FALSE)
              /\ events' = << UnauthorizedEvent >>
              /\ subOpen' = FALSE
       ELSE /\ ares' = AuthResult(TRUE, Absent, FALSE, "none", FALSE)
            /\ events' = <<>>
            /\ subOpen' = FALSE
    /\ UNCHANGED <<role, notifyNeeds, store>>
    /\ UNCHANGED <<drv, obs, hist, strm, wire>>

\* the closer of an open subscription
Unsubscribe ==
    /\ subOpen
    /\ subOpen' = FALSE
    /\ areq' = AuthReq("close", IdentifiedPath, Absent)
    /\ ares' = AuthResult(TRUE, Absent, FALSE, "none", FALSE)
    /\ UNCHANGED <<role, notifyNeeds, store, events>>
    /\ UNCHANGED <<drv, obs, hist, strm, wire>>

AuthNext ==
    \/ ReadField \/ FindChild \/ WriteField \/ EditChild
    \/ Invoke \/ Subscribe \/ Unsubscribe

AuthSpec == AuthInit /\ [][AuthNext]_vars

-----------------------------------------------------------------------------
(* What TestAuthConstraints reads off an operation (authorize_test.go 183-207) *)

XAllowed == "allowed"
XHidden == "hidden"
XUnauth == "unauthorized"

Val2auth(v, err) ==
    IF v = Absent THEN XHidden
    ELSE IF err = "unauthorized" THEN XUnauth
    ELSE XAllowed

Sel2auth(isSel) == IF ~isSel THEN XHidden ELSE XAllowed

Err2auth(err) ==
    IF err = "none" THEN XAllowed
    ELSE IF err = "unauthorized" THEN XUnauth
    ELSE "panic"

IsErrorEvent(e) == e.kind = "error"
\* notifyErr: the Err of the last error event the stream function saw
NotifyErr == LET errs == SelectSeq(events, IsErrorEvent)
             IN  IF errs = <<>> THEN "none" ELSE errs[Len(errs)].err

\* the verdict of the test on the last operation
Verdict ==
    IF areq.kind = "read" THEN (IF ares.reached THEN Val2auth(ares.val, ares.err) ELSE XHidden)
    ELSE IF areq.kind = "nav" THEN Sel2auth(ares.sel)
    ELSE IF areq.kind = "notify" THEN Err2auth(NotifyErr)
    ELSE IF ~ares.reached THEN XHidden
    ELSE Err2auth(ares.err)

\* the roles of the test table and what it expects of each
\* (authorize_test.go 77-137)
TestRole(desc) ==
    IF desc = "default" THEN EmptyRole
    ELSE IF desc = "none" THEN [EmptyRole EXCEPT ![BirdingPath] = PermRead]
    ELSE IF desc = "full" THEN [EmptyRole EXCEPT ![BirdingPath] = PermFull]
    ELSE [EmptyRole EXCEPT ![BirdingPath] = PermFull, ![OwnerPath] = PermNone]
TestDescs == {"default", "none", "full", "mixed"}
Expect(r, rp, w, wp, n, a) ==
    [read |-> r, readPath |-> rp, write |-> w, writePath |-> wp, notify |-> n, action |-> a]
TestExpects(desc) ==
    IF desc = "default" THEN Expect(XHidden, XHidden, XUnauth, XHidden, XUnauth, XUnauth)
    ELSE IF desc = "none" THEN Expect(XAllowed, XAllowed, XUnauth, XUnauth, XUnauth, XUnauth)
    ELSE IF desc = "full" THEN Expect(XAllowed, XAllowed, XAllowed, XAllowed, XAllowed, XAllowed)
    ELSE Expect(XAllowed, XHidden, XAllowed, XHidden, XAllowed, XAllowed)

\* the model gives every operation of the test the verdict the test expects
TestAuthConstraintsPasses ==
    \A desc \in TestDescs :
        (role = TestRole(desc) /\ ares.before.owner) =>
            LET e == TestExpects(desc)
            IN  /\ (areq.kind = "read" /\ areq.path = CountPath) => Verdict = e.read
                /\ (areq.kind = "nav") => Verdict = e.readPath
                /\ (areq.kind = "write" /\ areq.path = CountPath) => Verdict = e.write
                /\ (areq.kind = "write" /\ areq.path = NamePath) => Verdict = e.writePath
                /\ (areq.kind = "action") => Verdict = e.action
                /\ (areq.kind = "notify") => Verdict = e.notify

-----------------------------------------------------------------------------
(* Properties of access control (AuthSpec) *)

IsPrefix(q, p) == Len(q) <= Len(p) /\ SubSeq(p, 1, Len(q)) = q
\* the entries of the table whose path is a prefix of p
Entries(acl, p) == { q \in AllPaths : acl[q] # Unset /\ IsPrefix(q, p) }
Deepest(acl, p) == CHOOSE q \in Entries(acl, p) : \A r \in Entries(acl, p) : Len(r) <= Len(q)
IsEdit(kind) == kind \in {"write", "create", "delete"}
HiddenRead == ares.val = Absent /\ ares.err = "none" /\ ~ares.called
Refused == ares.err = "unauthorized" /\ ~ares.called /\ store = ares.before

\* C16: for every role table and every path p, Resolve(p) is the permission of
\* the deepest entry whose path is a prefix of p, and None when no entry's path
\* is; an empty role therefore denies everything: a field read is hidden, a
\* navigation is hidden, a write, an action call and a subscription are
\* Unauthorized.
C16_LongestPrefixWins ==
    /\ \A p \in AllPaths :
          Resolve(role, p) = IF Entries(role, p) = {} THEN PermNone
                             ELSE role[Deepest(role, p)]
    /\ (role = EmptyRole) =>
          /\ (areq.kind = "read") => HiddenRead
          /\ (areq.kind = "nav") => (~ares.sel /\ ares.err = "none")
          /\ (IsEdit(areq.kind) /\ ares.reached) => Refused
          /\ (areq.kind = "action") => Refused
          /\ (areq.kind = "notify") => (events = << UnauthorizedEvent >> /\ ~ares.called)

\* C16 witness: the table holds None for birding and Full for birding/owner, and
\* a read of birding/owner/name came back with the name.
C16_Witness ==
    /\ role = [EmptyRole EXCEPT ![BirdingPath] = PermNone, ![OwnerPath] = PermFull]
    /\ areq = AuthReq("read", NamePath, Absent)
    /\ ares.val = "ethel" /\ ares.called

C18_WritesNeedWrite ==
    /\ ((IsEdit(areq.kind) \/ areq.kind = "action") /\ ares.reached) =>
          IF Resolve(role, areq.path) < PermWrite THEN Refused
          ELSE ares.err = "none" /\ ares.called
    /\ (role = TestRole("none") /\ ares.before.count = "10") =>
          /\ (areq = AuthReq("read", CountPath, Absent)) => ares.val = "10"
          /\ (areq.kind = "write" /\ areq.path = CountPath) =>
                (ares.err = "unauthorized" /\ store.count = "10")
          /\ (areq.kind = "action") => ares.err = "unauthorized"

\* C18 witness: under [{birding: Read}] a write of count = 100 was refused and
\* count is still 10.
C18_Witness ==
    /\ role = TestRole("none")
    /\ areq = AuthReq("write", CountPath, "100")
    /\ ares.err = "unauthorized" /\ ~ares.called /\ store.count = "10"

\* C19 as claimed: a subscription at a path whose resolved permission is Read or
\* above is permitted: the node's subscribe is called, its event is delivered
\* and no Unauthorized event is produced.
C19_ReadMaySubscribe ==
    (areq.kind = "notify" /\ Resolve(role, areq.path) >= PermRead) =>
        (ares.called /\ events = << DataEvent >>)

\* C19 amended: a subscription at a path whose resolved permission is Full is
\* permitted (the node's subscribe is called, its event delivered, no
\* Unauthorized event); at exactly Read it is refused: the node's subscribe is
\* not called and the subscriber gets the Unauthorized event.
C19_FullMaySubscribe ==
    /\ (areq.kind = "notify" /\ Resolve(role, areq.path) = PermFull) =>
          (ares.called /\ events = << DataEvent >> /\ subOpen)
    /\ (areq.kind = "notify" /\ Resolve(role, areq.path) = PermRead) =>
          (~ares.called /\ events = << UnauthorizedEvent >> /\ ~subOpen)

\* C19 witness: under [{birding: Full}] a subscription to identified was opened
\* and its event delivered.
C19_Witness ==
    /\ role = TestRole("full")
    /\ areq.kind = "notify" /\ ares.called /\ events = << DataEvent >> /\ subOpen

\* C20: a subscription at a path whose resolved permission is below Read
\* delivers exactly one event, the Unauthorized error, and is closed: the
\* node's subscribe is never called, no data event is ever delivered, and the
\* stream is not left empty.
C20_DeniedSubscription ==
    (Resolve(role, IdentifiedPath) < PermRead) =>
        /\ ~subOpen
        /\ \A i \in DOMAIN events : events[i] = UnauthorizedEvent
        /\ (areq.kind = "notify") => (events = << UnauthorizedEvent >> /\ ~ares.called)

\* C20 witness: under the empty role a subscription was asked for and the
\* subscriber holds the one Unauthorized event.
C20_Witness ==
    /\ role = EmptyRole
    /\ areq.kind = "notify" /\ events = << UnauthorizedEvent >> /\ ~subOpen /\ ~ares.called

\* C21: a read at a path whose resolved permission is below Read yields no
\* error and no Unauthorized: a field read returns no value, a navigation to
\* the child returns no selection, and the test cannot tell either from a field
\* or child that is not there; a refused write, action call or subscription
\* is an explicit Unauthorized.
C21_HiddenReads ==
    /\ (areq.kind = "read" /\ Resolve(role, areq.path) < PermRead) =>
          (HiddenRead /\ Verdict = XHidden)
    /\ (areq.kind = "nav" /\ Resolve(role, areq.path) < PermRead) =>
          (~ares.sel /\ ares.err = "none" /\ Verdict = XHidden)
    /\ (areq.kind = "read" /\ ares.reached /\ FieldValue(ares.before, areq.path) = Absent) =>
          (ares.val = Absent /\ ares.err = "none" /\ Verdict = XHidden)
    /\ (areq.kind = "nav" /\ ~Present(ares.before, areq.path)) =>
          (~ares.sel /\ ares.err = "none" /\ Verdict = XHidden)
    /\ (areq.kind \in {"read", "nav"}) => ares.err = "none"
    /\ ((IsEdit(areq.kind) \/ areq.kind = "action") /\ ares.reached /\ ~ares.called) =>
          (ares.err = "unauthorized" /\ Verdict = XUnauth)
    /\ (areq.kind = "notify" /\ ~ares.called) =>
          (events = << UnauthorizedEvent >> /\ Verdict = XUnauth)

\* C21 witness: the role holds None for birding, count is 10, and a read of
\* count came back with no value and no error.
C21_Witness ==
    /\ role[BirdingPath] = PermNone
    /\ areq = AuthReq("read", CountPath, Absent)
    /\ store.count = "10" /\ ares.val = Absent /\ ares.err = "none" /\ ~ares.called

-----------------------------------------------------------------------------
(* Properties of the driver instance over sequences of requests (Spec) *)

C23_ValidOnlyIfProbed ==
    /\ (IsNavOp /\ ret.kind = "ok" /\ ret.by = "self") => op.target \in probedOk
    /\ (op.kind = "Field" /\ IsNavigation(op)) => sent = <<>>

IsGetOp == op.kind \in {"BeginEdit", "Child", "Next", "Field"} /\ Len(sent) = 1
              /\ sent[1].method = "GET"

\* C24: whatever the transport call comes back with, a success without a body
\* included, the GET of read mode and of the BeginEdit pre-fetch returns a node
\* or an error; a BeginEdit whose pre-fetch succeeds, with or without a body,
\* enters edit mode.
C24_GetReturnsNormally ==
    /\ IsGetOp => ret.kind \in {"ok", "err"}
    /\ (IsGetOp /\ op.kind = "BeginEdit" /\ ~answered.neterr /\ answered.status = 200) =>
          (ret.kind = "ok" /\ ~edit.nil /\ ~changes.nil)

====
